---- MODULE Spec2Model ----
(***************************************************************************)
(* Model of docker_container/lambda_batch_processor.py: the batch triage   *)
(* cycle (lambda_handler) of one or more Lambda containers working on one  *)
(* SQS queue and one S3 bucket.                                            *)
(*                                                                         *)
(* Every call to a collaborator (S3, SQS, the BERT model) is one step of a *)
(* container, so that lease expiry, the clock and collaborator failures    *)
(* interleave with the cycle exactly where they can in the program.        *)
(***************************************************************************)
EXTENDS Integers, Sequences, FiniteSets, TLC

(***************************************************************************)
(* Bounds of the model.                                                    *)
(***************************************************************************)
\* number of e-mails that the producer queued (one SQS message each)
NumItems == 2
\* number of collaborator calls that may fail for a reason outside the program
MaxFaults == 1
\* last instant of the clock; a day has two instants (see DayOf)
MaxClock == 1

\* BATCH_SIZE = int(os.environ.get('BATCH_SIZE', '50')), scaled down
BATCH_SIZE == 2

Items == 1..NumItems

\* strftime('%Y/%m/%d'): two instants make a day, so that two calls of
\* utcnow() on the same day can still return two different timestamps
DayOf(t) == t \div 2

None == "None"

(***************************************************************************)
(* Module-level configuration of the program.                              *)
(***************************************************************************)
\* os.environ.get('DELETE_CATEGORIES', 'spam,promotional,low-priority').split(',')
DELETE_CATEGORIES == <<"spam", "promotional", "low-priority">>

CATEGORY_MAP ==
    (0 :> "spam") @@ (1 :> "promotional") @@ (2 :> "work") @@ (3 :> "personal")
    @@ (4 :> "low-priority") @@ (5 :> "high-priority") @@ (6 :> "newsletter")

\* the class indices the classifier head is exercised with: a deletable one,
\* a retained one and one that CATEGORY_MAP does not know
PredictionInputs == {0, 2, 7}

\* the model has not been run on the text of an e-mail yet
Unset == -1

\* every category string the program can build a key from
Categories ==
    {CATEGORY_MAP[p] : p \in DOMAIN CATEGORY_MAP} \cup {"uncategorized"}

VARIABLES
    \* ---- the collaborators
    store,          \* S3 bucket EMAIL_BUCKET: key -> object body
    tags,           \* S3 object tagging: key -> tag set
    queue,          \* SQS queue: the messageIds whose message is in the queue
    lease,          \* SQS visibility: messageId -> container holding it, or None
    now,            \* the latest value datetime.utcnow() returned
    prediction,     \* argmax of the model's logits for each e-mail text seen so far
    faults,         \* collaborator failures injected so far
    \* ---- one Lambda container (process) per element of DOMAIN pc
    pc,             \* position of the container in lambda_handler
    model,          \* global model (tokenizer is loaded right before it)
    tokenizer,      \* global tokenizer
    modelDir,       \* MODEL_PATH on the container's disk
    messages,       \* local messages of lambda_handler
    emails,         \* local emails
    categories,     \* local categories
    idx,            \* position of the running for loop
    dstKey,         \* archive_key / processed_key of the running transition
    deleted_count,
    retained_count,
    result,         \* value returned by lambda_handler
    \* ---- history of the running cycle (not program state)
    calls,          \* kinds of collaborator calls made in this cycle
    acked,          \* messageIds whose delete_message succeeded in this cycle
    stepFailed,     \* messageIds with a failed S3 step in their transition
    faulted         \* kinds of calls hit by an injected failure in this cycle

vars == <<store, tags, queue, lease, now, prediction, faults, pc, model,
          tokenizer, modelDir, messages, emails, categories, idx, dstKey,
          deleted_count, retained_count, result, calls, acked, stepFailed,
          faulted>>

envVars == <<store, tags, queue, lease, now, prediction, faults>>

Engines == DOMAIN pc

(***************************************************************************)
(* Keys and bodies of the bucket.                                          *)
(***************************************************************************)
Key(loc, cat, day, id) == [loc |-> loc, cat |-> cat, day |-> day, id |-> id]

\* body['s3Key'] of the queued message of e-mail id
PendingKey(id) == Key("pending", "", 0, id)

\* (a key built from the full timestamp instead of the date)
ArchiveKeyStamped(cat, t, id) == Key("archive", cat, t, id)

\* f"archive/{category}/{utcnow:%Y/%m/%d}/{messageId}.json"
ArchiveKey(cat, t, id) == Key("archive", cat, DayOf(t), id)

\* f"processed/{category}/{utcnow:%Y/%m/%d}/{messageId}.json"
ProcessedKey(cat, t, id) == Key("processed", cat, DayOf(t), id)

\* f"deletions/{utcnow:%Y/%m/%d}/{message_id}.json"
DeletionKey(t, id) == Key("deletions", "", DayOf(t), id)

\* no transition is running
NoKey == Key("", "", 0, 0)

Body(kind, id, cat, at) == [kind |-> kind, messageId |-> id, category |-> cat, at |-> at]

\* the normalized {subject, sender, body} record stored for e-mail id
EmailBody(id) == Body("email", id, "", 0)

\* json.dumps({'messageId', 'category', 'markedAt'})
DeletionBody(id, cat, t) == Body("deletion", id, cat, t)

\* s3.put_object / the destination side of s3.copy_object: last write wins
Put(s, key, body) == [k \in DOMAIN s \cup {key} |-> IF k = key THEN body ELSE s[k]]

\* s3.delete_object: deleting a key that does not exist succeeds
Remove(s, key) == [k \in DOMAIN s \ {key} |-> s[k]]

\* s3.copy_object raises when the source key does not exist
CopyRaises(s, src) == src \notin DOMAIN s

\* s3.copy_object(CopySource=src, Key=dst)
CopyObject(s, src, dst) == Put(s, dst, s[src])

\* s3.put_object_tagging raises when the key does not exist
TagRaises(s, key) == key \notin DOMAIN s

\* TagSet [{category}, {deletedAt: utcnow().isoformat()}] replaces the tag set
PutTagging(tg, key, cat, t) == Put(tg, key, [category |-> cat, deletedAt |-> t])

\* the s3.put_object of mark_for_deletion
PutDeletion(s, id, cat, t, at) == Put(s, DeletionKey(t, id), DeletionBody(id, cat, at))

(***************************************************************************)
(* Pure functions of the program.                                          *)
(***************************************************************************)
\* (a policy that also deletes what the classifier could not label)
should_delete_email_fallback(category) ==
    \/ \E k \in DOMAIN DELETE_CATEGORIES : DELETE_CATEGORIES[k] = category
    \/ category = "uncategorized"

\* should_delete_email: category in DELETE_CATEGORIES
should_delete_email(category) ==
    \E k \in DOMAIN DELETE_CATEGORIES : DELETE_CATEGORIES[k] = category

\* (an except branch that returns ['uncategorized'] without the * len(emails))
\* (a mapping with a default label for an index CATEGORY_MAP does not know)
batch_classify_emails_unmapped(ems, predictions, inferenceFails) ==
    IF inferenceFails
    THEN [k \in 1..Len(ems) |-> "uncategorized"]
    ELSE [k \in 1..Len(ems) |->
             IF predictions[ems[k].messageId] \in DOMAIN CATEGORY_MAP
             THEN CATEGORY_MAP[predictions[ems[k].messageId]]
             ELSE "unknown"]

\* (an except branch that returns a category of the delete set)
batch_classify_emails_spam(ems, predictions, inferenceFails) ==
    IF inferenceFails
       \/ \E k \in DOMAIN ems : predictions[ems[k].messageId] \notin DOMAIN CATEGORY_MAP
    THEN [k \in 1..Len(ems) |-> "spam"]
    ELSE [k \in 1..Len(ems) |-> CATEGORY_MAP[predictions[ems[k].messageId]]]

batch_classify_emails_short(ems, predictions, inferenceFails) ==
    IF inferenceFails
       \/ \E k \in DOMAIN ems : predictions[ems[k].messageId] \notin DOMAIN CATEGORY_MAP
    THEN <<"uncategorized">>
    ELSE [k \in 1..Len(ems) |-> CATEGORY_MAP[predictions[ems[k].messageId]]]

\* batch_classify_emails: CATEGORY_MAP[pred] for every e-mail, predictions
\* being the argmax of the logits of each text; any exception (inference
\* failure, or the KeyError of an index CATEGORY_MAP lacks) makes the except
\* branch return ['uncategorized'] * len(emails)
batch_classify_emails(ems, predictions, inferenceFails) ==
    IF inferenceFails
       \/ \E k \in DOMAIN ems : predictions[ems[k].messageId] \notin DOMAIN CATEGORY_MAP
    THEN [k \in 1..Len(ems) |-> "uncategorized"]
    ELSE [k \in 1..Len(ems) |-> CATEGORY_MAP[predictions[ems[k].messageId]]]

\* the messages of a receive_message response, as a list
RECURSIVE SeqOf(_)
SeqOf(S) ==
    IF S = {} THEN <<>>
    ELSE LET m == CHOOSE x \in S : \A y \in S : x <= y
         IN <<m>> \o SeqOf(S \ {m})

\* the three shapes of the value lambda_handler returns
\* (a key of the body that is absent has the value -1 or None)
EmptyResult == [statusCode |-> 200, processed |-> 0, deleted |-> -1,
                retained |-> -1, message |-> "No emails to process",
                error |-> None]

BatchResult(n, d, r) == [statusCode |-> 200, processed |-> n, deleted |-> d,
                         retained |-> r, message |-> None, error |-> None]

ErrorResult(what) == [statusCode |-> 500, processed |-> -1, deleted |-> -1,
                      retained |-> -1, message |-> None, error |-> what]

\* lambda_handler has not returned yet
NoResult == [statusCode |-> 0, processed |-> -1, deleted |-> -1,
             retained |-> -1, message |-> None, error |-> None]

\* (the test "messages is None", which an empty list does not pass)
NoMessagesIsNone(msgs) == Len(msgs) < 0

\* "if not messages": the list is empty
NoMessages(msgs) == Len(msgs) = 0

\* the values datetime.utcnow() can return next: time does not run backwards
Clock == now..MaxClock

\* a collaborator call may fail only while the fault budget lasts
MayFail == faults < MaxFaults

\* (a queue without visibility timeout: a received message stays visible)
VisibleUnleased == queue

\* the messages receive_message can return: those no container holds
Visible == {i \in queue : lease[i] = None}

(***************************************************************************)
(* Initial state: every e-mail is stored under its pending key and has one *)
(* message in the queue; no container has run yet.                         *)
(***************************************************************************)
InitWith(E) ==
    /\ store = [k \in {PendingKey(i) : i \in Items} |-> EmailBody(k.id)]
    /\ tags = [k \in {} |-> {}]
    /\ queue = Items
    /\ lease = [i \in Items |-> None]
    /\ now = 0
    /\ prediction = [i \in Items |-> Unset]
    /\ faults = 0
    /\ pc = [e \in E |-> "idle"]
    /\ model = [e \in E |-> None]
    /\ tokenizer = [e \in E |-> None]
    /\ modelDir = [e \in E |-> "absent"]
    /\ messages = [e \in E |-> <<>>]
    /\ emails = [e \in E |-> <<>>]
    /\ categories = [e \in E |-> <<>>]
    /\ idx = [e \in E |-> 0]
    /\ dstKey = [e \in E |-> NoKey]
    /\ deleted_count = [e \in E |-> 0]
    /\ retained_count = [e \in E |-> 0]
    /\ result = [e \in E |-> NoResult]
    /\ calls = [e \in E |-> {}]
    /\ acked = [e \in E |-> {}]
    /\ stepFailed = [e \in E |-> {}]
    /\ faulted = [e \in E |-> {}]

Init == InitWith({"c1"})

(***************************************************************************)
(* Steps of lambda_handler.                                                *)
(***************************************************************************)
\* the fault budget pays for the injected failure f of a call of kind k
Charge(e, f, k) ==
    /\ f => MayFail
    /\ faults' = IF f THEN faults + 1 ELSE faults
    /\ faulted' = [faulted EXCEPT ![e] = IF f THEN @ \cup {k} ELSE @]

\* (a handler without the try/except: the exception leaves lambda_handler)
RaiseEscapes(e, what) ==
    /\ result' = [result EXCEPT ![e] = NoResult]
    /\ pc' = [pc EXCEPT ![e] = "done"]

\* str(e) of the exception a failed call raises. The program adds nothing to
\* it: the text is that of the collaborator, which for S3 and SQS names the
\* API operation that failed; s3.download_file is a HeadObject followed by a
\* GetObject, and either of them can be the one that fails.
ErrorTexts(call) ==
    CASE call = "download_file" -> {"HeadObject", "GetObject"}
      [] call = "get_object" -> {"GetObject"}
      [] call = "from_pretrained" -> {"OSError"}
      [] call = "delete_message" -> {"DeleteMessage"}

\* except Exception as e: return {'statusCode': 500, 'body': {'error': str(e)}}
Raise(e, call) ==
    /\ \E text \in ErrorTexts(call) :
          result' = [result EXCEPT ![e] = ErrorResult(text)]
    /\ pc' = [pc EXCEPT ![e] = "done"]

\* the scheduler invokes lambda_handler in container e
StartCycle(e) ==
    /\ pc[e] \in {"idle", "done"}
    /\ pc' = [pc EXCEPT ![e] = "load_model"]
    /\ messages' = [messages EXCEPT ![e] = <<>>]
    /\ emails' = [emails EXCEPT ![e] = <<>>]
    /\ categories' = [categories EXCEPT ![e] = <<>>]
    /\ idx' = [idx EXCEPT ![e] = 0]
    /\ dstKey' = [dstKey EXCEPT ![e] = NoKey]
    /\ deleted_count' = [deleted_count EXCEPT ![e] = 0]
    /\ retained_count' = [retained_count EXCEPT ![e] = 0]
    /\ result' = [result EXCEPT ![e] = NoResult]
    /\ calls' = [calls EXCEPT ![e] = {}]
    /\ acked' = [acked EXCEPT ![e] = {}]
    /\ stepFailed' = [stepFailed EXCEPT ![e] = {}]
    /\ faulted' = [faulted EXCEPT ![e] = {}]
    /\ UNCHANGED <<envVars, model, tokenizer, modelDir>>

\* (a load_model without the "if model is None" test: it loads in every cycle)
LoadModelAgain(e) ==
    /\ pc[e] = "load_model"
    /\ model[e] # None
    /\ pc' = [pc EXCEPT ![e] = "receive"]
    /\ calls' = [calls EXCEPT ![e] = @ \cup {"from_pretrained"}]
    /\ UNCHANGED <<envVars, model, tokenizer, modelDir, messages, emails,
                   categories, idx, dstKey, deleted_count, retained_count,
                   result, acked, stepFailed, faulted>>

\* load_model() with model already set: nothing is done
LoadModelSkip(e) ==
    /\ pc[e] = "load_model"
    /\ model[e] # None
    /\ pc' = [pc EXCEPT ![e] = "receive"]
    /\ UNCHANGED <<envVars, model, tokenizer, modelDir, messages, emails,
                   categories, idx, dstKey, deleted_count, retained_count,
                   result, calls, acked, stepFailed, faulted>>

\* load_model() with model unset: download the four files when MODEL_PATH does
\* not exist (makedirs comes first, so a failed download leaves the directory
\* behind with files missing), then load the tokenizer and then the model
load_model(e) ==
    /\ pc[e] = "load_model"
    /\ model[e] = None
    /\ \E failAt \in {"", "download_file", "tokenizer", "model"} :
          LET download == modelDir[e] = "absent"
              dir == IF ~download THEN modelDir[e]
                     ELSE IF failAt = "download_file" THEN "partial" ELSE "complete"
          IN  /\ failAt = "download_file" => download
              \* from_pretrained cannot read a directory with files missing
              /\ dir = "partial" => failAt \in {"download_file", "tokenizer"}
              /\ Charge(e, failAt = "download_file" \/ (failAt # "" /\ dir = "complete"),
                        "load_model")
              /\ modelDir' = [modelDir EXCEPT ![e] = dir]
              /\ calls' = [calls EXCEPT ![e] = @ \cup
                      (IF download THEN {"download_file"} ELSE {}) \cup
                      (IF failAt = "download_file" THEN {} ELSE {"from_pretrained"})]
              /\ tokenizer' = [tokenizer EXCEPT ![e] =
                      IF failAt \in {"", "model"} THEN "loaded" ELSE @]
              /\ model' = [model EXCEPT ![e] = IF failAt = "" THEN "loaded" ELSE @]
              /\ IF failAt = ""
                 THEN /\ pc' = [pc EXCEPT ![e] = "receive"]
                      /\ UNCHANGED result
                 ELSE Raise(e, IF failAt = "download_file" THEN "download_file"
                                                          ELSE "from_pretrained")
    /\ UNCHANGED <<store, tags, queue, lease, now, prediction, messages, emails,
                   categories, idx, dstKey, deleted_count, retained_count,
                   acked, stepFailed>>

\* receive_batch_messages() and the "if not messages" return of lambda_handler:
\* the queue hands out at most BATCH_SIZE visible messages and leases them to
\* the caller; a failed receive_message is caught and turned into []
receive_batch_messages(e) ==
    /\ pc[e] = "receive"
    /\ \E fails \in BOOLEAN, S \in SUBSET Visible :
          /\ fails => S = {}
          /\ Cardinality(S) <= BATCH_SIZE
          /\ Charge(e, fails, "receive_message")
          /\ lease' = [i \in Items |-> IF i \in S THEN e ELSE lease[i]]
          /\ messages' = [messages EXCEPT ![e] = SeqOf(S)]
          /\ IF NoMessages(SeqOf(S))
             THEN /\ result' = [result EXCEPT ![e] = EmptyResult]
                  /\ pc' = [pc EXCEPT ![e] = "done"]
                  /\ UNCHANGED idx
             ELSE /\ pc' = [pc EXCEPT ![e] = "load"]
                  /\ idx' = [idx EXCEPT ![e] = 1]
                  /\ UNCHANGED result
    /\ calls' = [calls EXCEPT ![e] = @ \cup {"receive_message"}]
    /\ UNCHANGED <<store, tags, queue, now, prediction, model, tokenizer, modelDir,
                   emails, categories, dstKey, deleted_count, retained_count,
                   acked, stepFailed>>

\* (a load_email_from_s3 that returns an empty body instead of re-raising)
load_email_from_s3_quiet(e) ==
    /\ pc[e] = "load"
    /\ idx[e] \in DOMAIN messages[e]
    /\ LET id == messages[e][idx[e]]
           key == PendingKey(id)
       IN \E fails \in BOOLEAN :
            /\ Charge(e, fails, "get_object")
            /\ emails' = [emails EXCEPT ![e] = Append(@,
                      [messageId |-> id, s3Key |-> key,
                       data |-> IF fails \/ key \notin DOMAIN store
                                THEN EmailBody(0) ELSE store[key],
                       receiptHandle |-> id])]
            /\ IF idx[e] < Len(messages[e])
               THEN /\ idx' = [idx EXCEPT ![e] = @ + 1]
                    /\ UNCHANGED pc
               ELSE /\ idx' = [idx EXCEPT ![e] = 0]
                    /\ pc' = [pc EXCEPT ![e] = "classify"]
            /\ UNCHANGED result
    /\ calls' = [calls EXCEPT ![e] = @ \cup {"get_object"}]
    /\ UNCHANGED <<store, tags, queue, lease, now, prediction, model, tokenizer,
                   modelDir, messages, categories, dstKey, deleted_count,
                   retained_count, acked, stepFailed>>

\* one round of the loading loop: load_email_from_s3(body['s3Key']) re-raises
\* any failure of get_object, which ends the cycle in the handler's except
load_email_from_s3(e) ==
    /\ pc[e] = "load"
    /\ idx[e] \in DOMAIN messages[e]
    /\ LET id == messages[e][idx[e]]
           key == PendingKey(id)
       IN \E fails \in BOOLEAN :
            /\ Charge(e, fails, "get_object")
            /\ IF fails \/ key \notin DOMAIN store
               THEN /\ Raise(e, "get_object")
                    /\ UNCHANGED <<emails, idx>>
               ELSE /\ emails' = [emails EXCEPT ![e] = Append(@,
                                     [messageId |-> id, s3Key |-> key,
                                      data |-> store[key], receiptHandle |-> id])]
                    /\ IF idx[e] < Len(messages[e])
                       THEN /\ idx' = [idx EXCEPT ![e] = @ + 1]
                            /\ UNCHANGED pc
                       ELSE /\ idx' = [idx EXCEPT ![e] = 0]
                            /\ pc' = [pc EXCEPT ![e] = "classify"]
                    /\ UNCHANGED result
    /\ calls' = [calls EXCEPT ![e] = @ \cup {"get_object"}]
    /\ UNCHANGED <<store, tags, queue, lease, now, prediction, model, tokenizer,
                   modelDir, messages, categories, dstKey, deleted_count,
                   retained_count, acked, stepFailed>>

\* categories = batch_classify_emails(emails); the model is deterministic
\* (eval mode, no_grad), so a text it has seen gets the same class index again
Classify(e) ==
    /\ pc[e] = "classify"
    /\ \E fails \in BOOLEAN :
        LET batch == {emails[e][k].messageId : k \in DOMAIN emails[e]}
            new == IF fails THEN {} ELSE {i \in batch : prediction[i] = Unset}
        IN \E p \in [new -> PredictionInputs] :
          LET seen == [i \in Items |-> IF i \in new THEN p[i] ELSE prediction[i]]
          IN /\ Charge(e, fails, "model")
             /\ prediction' = seen
             /\ categories' = [categories EXCEPT ![e] =
                                  batch_classify_emails(emails[e], seen, fails)]
    /\ calls' = [calls EXCEPT ![e] = @ \cup {"model"}]
    /\ idx' = [idx EXCEPT ![e] = 1]
    /\ pc' = [pc EXCEPT ![e] = "item"]
    /\ UNCHANGED <<store, tags, queue, lease, now, model, tokenizer,
                   modelDir, messages, emails, dstKey, deleted_count,
                   retained_count, result, acked, stepFailed>>

\* the e-mail and the category of the running round of the for loop
CurEmail(e) == emails[e][idx[e]]

CurCategory(e) == categories[e][idx[e]]

\* the end of one round of the for loop: the next round, or the result
NextRound(e) ==
    IF idx[e] < Len(emails[e])
    THEN /\ idx' = [idx EXCEPT ![e] = @ + 1]
         /\ pc' = [pc EXCEPT ![e] = "item"]
         /\ UNCHANGED result
    ELSE /\ idx' = [idx EXCEPT ![e] = 0]
         /\ pc' = [pc EXCEPT ![e] = "done"]
         /\ result' = [result EXCEPT ![e] =
                BatchResult(Len(emails[e]), deleted_count[e], retained_count[e])]

\* archive_email, first call: archive_key is built from utcnow(), then
\* s3.copy_object; an exception skips the tagging and is swallowed
archive_email(e) ==
    /\ pc[e] = "item"
    /\ should_delete_email(CurCategory(e))
    /\ \E utcnow \in Clock, fails \in BOOLEAN :
         LET em == CurEmail(e)
             key == ArchiveKey(CurCategory(e), utcnow, em.messageId)
         IN /\ now' = utcnow
            /\ Charge(e, fails, "copy_object")
            /\ dstKey' = [dstKey EXCEPT ![e] = key]
            /\ IF fails \/ CopyRaises(store, em.s3Key)
               THEN /\ stepFailed' = [stepFailed EXCEPT ![e] = @ \cup {em.messageId}]
                    /\ pc' = [pc EXCEPT ![e] = "mark"]
                    /\ UNCHANGED store
               ELSE /\ store' = CopyObject(store, em.s3Key, key)
                    /\ pc' = [pc EXCEPT ![e] = "tag"]
                    /\ UNCHANGED stepFailed
    /\ calls' = [calls EXCEPT ![e] = @ \cup {"copy_object"}]
    /\ UNCHANGED <<tags, queue, lease, prediction, model, tokenizer, modelDir,
                   messages, emails, categories, idx, deleted_count,
                   retained_count, result, acked>>

\* archive_email, second call: s3.put_object_tagging on archive_key with
\* category and deletedAt = utcnow(); an exception is swallowed
put_object_tagging(e) ==
    /\ pc[e] = "tag"
    /\ \E utcnow \in Clock, fails \in BOOLEAN :
          /\ now' = utcnow
          /\ Charge(e, fails, "put_object_tagging")
          /\ IF fails \/ TagRaises(store, dstKey[e])
             THEN /\ stepFailed' = [stepFailed EXCEPT ![e] = @ \cup {CurEmail(e).messageId}]
                  /\ UNCHANGED tags
             ELSE /\ tags' = PutTagging(tags, dstKey[e], CurCategory(e), utcnow)
                  /\ UNCHANGED stepFailed
    /\ calls' = [calls EXCEPT ![e] = @ \cup {"put_object_tagging"}]
    /\ pc' = [pc EXCEPT ![e] = "mark"]
    /\ UNCHANGED <<store, queue, lease, prediction, model, tokenizer, modelDir,
                   messages, emails, categories, idx, dstKey, deleted_count,
                   retained_count, result, acked>>

\* mark_for_deletion: deletion_key is built from one utcnow(), markedAt from a
\* later one, then s3.put_object of the deletion record; an exception is
\* swallowed; back in lambda_handler, deleted_count += 1
mark_for_deletion(e) ==
    /\ pc[e] = "mark"
    /\ \E utcnow \in Clock, fails \in BOOLEAN :
       \E markedAt \in utcnow..MaxClock :
         LET id == CurEmail(e).messageId
         IN /\ now' = markedAt
            /\ Charge(e, fails, "put_object")
            /\ IF fails
               THEN /\ stepFailed' = [stepFailed EXCEPT ![e] = @ \cup {id}]
                    /\ UNCHANGED store
               ELSE /\ store' = PutDeletion(store, id, CurCategory(e), utcnow, markedAt)
                    /\ UNCHANGED stepFailed
    /\ calls' = [calls EXCEPT ![e] = @ \cup {"put_object"}]
    /\ deleted_count' = [deleted_count EXCEPT ![e] = @ + 1]
    /\ pc' = [pc EXCEPT ![e] = "ack"]
    /\ UNCHANGED <<tags, queue, lease, prediction, model, tokenizer, modelDir,
                   messages, emails, categories, idx, dstKey, retained_count,
                   result, acked>>

\* (a move_to_processed with one try per call: a failed copy does not skip
\* the delete)
move_to_processed_unguarded(e) ==
    /\ pc[e] = "item"
    /\ ~should_delete_email(CurCategory(e))
    /\ \E utcnow \in Clock, fails \in BOOLEAN :
         LET em == CurEmail(e)
             key == ProcessedKey(CurCategory(e), utcnow, em.messageId)
         IN /\ now' = utcnow
            /\ Charge(e, fails, "copy_object")
            /\ dstKey' = [dstKey EXCEPT ![e] = key]
            /\ IF fails \/ CopyRaises(store, em.s3Key)
               THEN /\ stepFailed' = [stepFailed EXCEPT ![e] = @ \cup {em.messageId}]
                    /\ pc' = [pc EXCEPT ![e] = "unlink"]
                    /\ UNCHANGED <<store, retained_count>>
               ELSE /\ store' = CopyObject(store, em.s3Key, key)
                    /\ pc' = [pc EXCEPT ![e] = "unlink"]
                    /\ UNCHANGED <<stepFailed, retained_count>>
    /\ calls' = [calls EXCEPT ![e] = @ \cup {"copy_object"}]
    /\ UNCHANGED <<tags, queue, lease, prediction, model, tokenizer, modelDir,
                   messages, emails, categories, idx, deleted_count, result,
                   acked>>

\* move_to_processed, first call: processed_key is built from utcnow(), then
\* s3.copy_object; an exception skips the delete and is swallowed, and
\* lambda_handler goes on with retained_count += 1
move_to_processed(e) ==
    /\ pc[e] = "item"
    /\ ~should_delete_email(CurCategory(e))
    /\ \E utcnow \in Clock, fails \in BOOLEAN :
         LET em == CurEmail(e)
             key == ProcessedKey(CurCategory(e), utcnow, em.messageId)
         IN /\ now' = utcnow
            /\ Charge(e, fails, "copy_object")
            /\ dstKey' = [dstKey EXCEPT ![e] = key]
            /\ IF fails \/ CopyRaises(store, em.s3Key)
               THEN /\ stepFailed' = [stepFailed EXCEPT ![e] = @ \cup {em.messageId}]
                    /\ retained_count' = [retained_count EXCEPT ![e] = @ + 1]
                    /\ pc' = [pc EXCEPT ![e] = "ack"]
                    /\ UNCHANGED store
               ELSE /\ store' = CopyObject(store, em.s3Key, key)
                    /\ pc' = [pc EXCEPT ![e] = "unlink"]
                    /\ UNCHANGED <<stepFailed, retained_count>>
    /\ calls' = [calls EXCEPT ![e] = @ \cup {"copy_object"}]
    /\ UNCHANGED <<tags, queue, lease, prediction, model, tokenizer, modelDir,
                   messages, emails, categories, idx, deleted_count, result,
                   acked>>

\* move_to_processed, second call: s3.delete_object of the pending key; an
\* exception is swallowed; back in lambda_handler, retained_count += 1
delete_object(e) ==
    /\ pc[e] = "unlink"
    /\ LET em == CurEmail(e)
       IN \E fails \in BOOLEAN :
            /\ Charge(e, fails, "delete_object")
            /\ IF fails
               THEN /\ stepFailed' = [stepFailed EXCEPT ![e] = @ \cup {em.messageId}]
                    /\ UNCHANGED store
               ELSE /\ store' = Remove(store, em.s3Key)
                    /\ UNCHANGED stepFailed
    /\ calls' = [calls EXCEPT ![e] = @ \cup {"delete_object"}]
    /\ retained_count' = [retained_count EXCEPT ![e] = @ + 1]
    /\ pc' = [pc EXCEPT ![e] = "ack"]
    /\ UNCHANGED <<tags, queue, lease, now, prediction, model, tokenizer, modelDir,
                   messages, emails, categories, idx, dstKey, deleted_count,
                   result, acked>>

\* sqs.delete_message(ReceiptHandle): the message leaves the queue; a failure
\* is not caught in the loop and ends the cycle in the handler's except
delete_message(e) ==
    /\ pc[e] = "ack"
    /\ LET id == CurEmail(e).receiptHandle
       IN \E fails \in BOOLEAN :
            /\ Charge(e, fails, "delete_message")
            /\ IF fails
               THEN /\ Raise(e, "delete_message")
                    /\ UNCHANGED <<queue, lease, acked, idx>>
               ELSE /\ queue' = queue \ {id}
                    /\ lease' = [lease EXCEPT ![id] = None]
                    /\ acked' = [acked EXCEPT ![e] = @ \cup {id}]
                    /\ NextRound(e)
    /\ calls' = [calls EXCEPT ![e] = @ \cup {"delete_message"}]
    /\ dstKey' = [dstKey EXCEPT ![e] = NoKey]
    /\ UNCHANGED <<store, tags, now, prediction, model, tokenizer, modelDir,
                   messages, emails, categories, deleted_count, retained_count,
                   stepFailed>>

(***************************************************************************)
(* Steps of the environment.                                               *)
(***************************************************************************)
\* the visibility timeout of the messages of one receive_message response
\* runs out; the queue is configured so that the timeout outlasts the cycle
\* of the container that received them
LeaseExpires(e) ==
    /\ pc[e] \in {"idle", "done"}
    /\ \E i \in queue : lease[i] = e
    /\ lease' = [i \in Items |-> IF lease[i] = e THEN None ELSE lease[i]]
    /\ UNCHANGED <<store, tags, queue, now, prediction, faults, pc, model,
                   tokenizer, modelDir, messages, emails, categories, idx,
                   dstKey, deleted_count, retained_count, result, calls, acked,
                   stepFailed, faulted>>

Next ==
    \/ \E e \in Engines : StartCycle(e)
    \/ \E e \in Engines : LoadModelSkip(e)
    \/ \E e \in Engines : load_model(e)
    \/ \E e \in Engines : receive_batch_messages(e)
    \/ \E e \in Engines : load_email_from_s3(e)
    \/ \E e \in Engines : Classify(e)
    \/ \E e \in Engines : archive_email(e)
    \/ \E e \in Engines : put_object_tagging(e)
    \/ \E e \in Engines : mark_for_deletion(e)
    \/ \E e \in Engines : move_to_processed(e)
    \/ \E e \in Engines : delete_object(e)
    \/ \E e \in Engines : delete_message(e)
    \/ \E e \in Engines : LeaseExpires(e)

Spec == Init /\ [][Next]_vars

\* two containers on the same queue and the same bucket
InitTwo == InitWith({"c1", "c2"})

SpecTwo == InitTwo /\ [][Next]_vars

TypeOK ==
    /\ queue \subseteq Items
    /\ faults \in 0..MaxFaults
    /\ now \in 0..MaxClock
    /\ \A e \in Engines : Len(categories[e]) \in {0, Len(emails[e])}

(***************************************************************************)
(* The transition of one e-mail as a function of the bucket: what the      *)
(* for-loop body of lambda_handler does to b = [store, tags] when it runs  *)
(* at instant t and no call is hit by an injected failure.                 *)
(***************************************************************************)
\* archive_email(email_info, category)
ArchiveRun(b, id, cat, t) ==
    LET key == ArchiveKey(cat, t, id)
    IN IF CopyRaises(b.store, PendingKey(id)) THEN b
       ELSE LET s1 == CopyObject(b.store, PendingKey(id), key)
            IN [store |-> s1,
                tags |-> IF TagRaises(s1, key) THEN b.tags
                         ELSE PutTagging(b.tags, key, cat, t)]

\* mark_for_deletion(message_id, category)
MarkRun(b, id, cat, t) == [b EXCEPT !.store = PutDeletion(@, id, cat, t, t)]

\* move_to_processed(email_info, category)
MoveRun(b, id, cat, t) ==
    IF CopyRaises(b.store, PendingKey(id)) THEN b
    ELSE [b EXCEPT !.store = Remove(CopyObject(@, PendingKey(id),
                                               ProcessedKey(cat, t, id)),
                                    PendingKey(id))]

\* the if/else of the for loop
TransitionRun(b, id, cat, t) ==
    IF should_delete_email(cat)
    THEN MarkRun(ArchiveRun(b, id, cat, t), id, cat, t)
    ELSE MoveRun(b, id, cat, t)

(***************************************************************************)
(* Properties.                                                             *)
(***************************************************************************)
\* the keys under which e-mail id has a copy at location loc
KeysOf(loc, id) == {k \in DOMAIN store : k.loc = loc /\ k.id = id}

\* the messageIds container e received in its running (or last) cycle
Received(e) == {messages[e][k] : k \in DOMAIN messages[e]}

\* the category the running cycle of e assigned to the e-mail id
CategoryOf(e, id) ==
    categories[e][CHOOSE k \in DOMAIN emails[e] : emails[e][k].messageId = id]

\* C1: in every cycle, the envelope of an Item is acknowledged only after
\* every store step of that Item's transition has succeeded; an Item with a
\* failed store step keeps its envelope un-acknowledged.
C1_AckOnlyAfterTransition ==
    \A e \in Engines : acked[e] \cap stepFailed[e] = {}

\* C2: once a cycle has acknowledged an Item, a retained Item has a copy under
\* a processed key of its category and no pending original any more, and a
\* deletable Item has a copy under an archive key of its category and a
\* deletion-intent record.
C2_AckedIsTransitioned ==
    \A e \in Engines : \A id \in acked[e] :
        LET cat == CategoryOf(e, id)
        IN IF should_delete_email(cat)
           THEN /\ \E k \in KeysOf("archive", id) : k.cat = cat
                /\ KeysOf("deletions", id) # {}
           ELSE /\ \E k \in KeysOf("processed", id) : k.cat = cat
                /\ PendingKey(id) \notin DOMAIN store

\* an Item has reached a terminal state in the store
IsArchived(id) == KeysOf("archive", id) # {} /\ KeysOf("deletions", id) # {}

IsProcessed(id) == KeysOf("processed", id) # {} /\ PendingKey(id) \notin DOMAIN store

\* what the bucket holds for e-mail id
ObjectsOf(s, id) == [k \in {x \in DOMAIN s : x.id = id} |-> s[k]]

\* C3: over any sequence of cycles no Item has both an archive copy and a
\* processed copy, and the objects of an Item that is archived or processed
\* are never written again.
C3_OneTerminalState ==
    [][\A id \in Items :
         /\ ~(KeysOf("archive", id)' # {} /\ KeysOf("processed", id)' # {})
         /\ (IsArchived(id) \/ IsProcessed(id)) =>
                /\ ObjectsOf(store', id) = ObjectsOf(store, id)
                /\ ObjectsOf(tags', id) = ObjectsOf(tags, id)]_vars

\* C5: a cycle in which receive_message or delete_message failed ends with an
\* error result and has acknowledged no Item.
C5_QueueFailureAborts ==
    \A e \in Engines :
        (pc[e] = "done" /\ faulted[e] \cap {"receive_message", "delete_message"} # {})
            => (result[e].statusCode = 500 /\ acked[e] = {})

\* the Items of the cycle of e that reached a terminal state in that cycle,
\* and those whose handling failed
ArchivedIn(e) ==
    {id \in acked[e] \ stepFailed[e] : should_delete_email(CategoryOf(e, id))}

ProcessedIn(e) ==
    {id \in acked[e] \ stepFailed[e] : ~should_delete_email(CategoryOf(e, id))}

ErrorsIn(e) == Received(e) \ (ArchivedIn(e) \cup ProcessedIn(e))

\* C7: the result of a completed cycle counts every received Item once:
\* 'deleted' is the number of Items archived in the cycle, 'retained' the
\* number of Items processed in it, and 'processed' (the number received) is
\* their sum plus the number of Items whose handling failed.
C7_ResultAccounts ==
    \A e \in Engines :
        (pc[e] = "done" /\ result[e].statusCode = 200 /\ result[e].message = None) =>
            /\ result[e].processed = Cardinality(Received(e))
            /\ result[e].deleted = Cardinality(ArchivedIn(e))
            /\ result[e].retained = Cardinality(ProcessedIn(e))
            /\ result[e].processed =
                   result[e].deleted + result[e].retained + Cardinality(ErrorsIn(e))

\* C4: an Item that was received but not acknowledged stays in the queue, and
\* a later cycle that receives it again handles it: a cycle that no
\* collaborator failure hits loads, classifies, transitions and acknowledges
\* every Item it received.
C4_UnackedIsRetried ==
    \A e \in Engines : pc[e] = "done" =>
        /\ Received(e) \ acked[e] \subseteq queue
        /\ faulted[e] = {} => Received(e) \subseteq acked[e]

\* the bucket without the timestamps deletedAt and markedAt
Entries(b) ==
    [store |-> [k \in DOMAIN b.store |-> [b.store[k] EXCEPT !.at = 0]],
     tags |-> [k \in DOMAIN b.tags |-> b.tags[k].category]]

\* the bucket as container e sees it
Bucket == [store |-> store, tags |-> tags]

DefaultDeleteSet == {"spam", "promotional", "low-priority"}

\* C8: should_delete_email is true for exactly the categories of the delete
\* set, 'uncategorized' is not deletable, and the cycle follows the predicate:
\* only deletable categories are archived, only the others are moved.
C8_DeletePolicy ==
    /\ \A c \in Categories : should_delete_email(c) <=> c \in DefaultDeleteSet
    /\ ~should_delete_email("uncategorized")
    /\ \A k \in DOMAIN store :
          /\ k.loc = "archive" => k.cat \in DefaultDeleteSet
          /\ k.loc = "processed" => k.cat \notin DefaultDeleteSet
    /\ \A e \in Engines :
          /\ pc[e] \in {"tag", "mark"} => CurCategory(e) \in DefaultDeleteSet
          /\ pc[e] = "unlink" => CurCategory(e) \notin DefaultDeleteSet

\* one e-mail was archived as spam and another one was retained with the
\* fallback category
C8_Witness ==
    /\ \E k \in DOMAIN store : k.loc = "archive" /\ k.cat = "spam"
    /\ \E k \in DOMAIN store : k.loc = "processed" /\ k.cat = "uncategorized"

\* C9: batch_classify_emails returns one category per e-mail, in input order,
\* whether inference succeeds or fails, for every batch size from 0 on.
C9_OneCategoryPerEmail ==
    \A e \in Engines :
        /\ "model" \in calls[e] =>
              /\ Len(categories[e]) = Len(emails[e])
              /\ \/ \A k \in DOMAIN emails[e] : categories[e][k] = "uncategorized"
                 \/ \A k \in DOMAIN emails[e] :
                       /\ prediction[emails[e][k].messageId] \in DOMAIN CATEGORY_MAP
                       /\ categories[e][k] = CATEGORY_MAP[prediction[emails[e][k].messageId]]
        /\ pc[e] = "classify" =>
              \A n \in 0..Len(emails[e]), fails \in BOOLEAN :
                 Len(batch_classify_emails(SubSeq(emails[e], 1, n), prediction, fails)) = n

\* inference failed on a batch of two e-mails
C9_Witness ==
    \E e \in Engines :
        /\ "model" \in faulted[e]
        /\ Len(emails[e]) = 2
        /\ Len(categories[e]) = 2

\* the calls that read or write the bucket, and the inference call
StoreCalls == {"download_file", "get_object", "copy_object", "put_object_tagging",
               "put_object", "delete_object"}

ClassifierCalls == {"model"}

\* the receive of the cycle of e has returned no envelope
EmptyReceive(e) == "receive_message" \in calls[e] /\ messages[e] = <<>>

\* C10 as stated: a cycle whose receive returns no envelope ends with a
\* success result and zero counts and makes no call to the bucket or to the
\* classifier.
C10_EmptyCycleMakesNoCall ==
    \A e \in Engines : EmptyReceive(e) =>
        /\ pc[e] = "done"
        /\ result[e].statusCode = 200 /\ result[e].processed = 0
        /\ calls[e] \cap (StoreCalls \cup ClassifierCalls) = {}

\* C10 amended: a cycle whose receive returns no envelope ends with a success
\* result and processed = 0, reads and writes no e-mail object and runs no
\* inference; the only bucket call it can have made is the download of the
\* model files by load_model, before the receive, in a container that had
\* neither the model nor MODEL_PATH.
C10_EmptyCycleTouchesNoEmail ==
    \A e \in Engines : EmptyReceive(e) =>
        /\ pc[e] = "done"
        /\ result[e] = EmptyResult
        /\ calls[e] \cap ((StoreCalls \ {"download_file"}) \cup ClassifierCalls) = {}
        /\ "download_file" \in calls[e] => "from_pretrained" \in calls[e]

\* the first cycle of a container found the queue empty
C10_Witness ==
    \E e \in Engines :
        /\ pc[e] = "done"
        /\ result[e] = EmptyResult
        /\ calls[e] = {"download_file", "from_pretrained", "receive_message"}

\* C11: when inference fails, every e-mail of the batch gets the category
\* 'uncategorized' and the cycle goes on: no e-mail of the batch takes the
\* archive path, and the cycle does not end with an error unless another call
\* fails; when no other call of the cycle fails, the cycle ends with every
\* e-mail of the batch acknowledged, copied under processed/uncategorized and
\* removed from its pending key.
C11_InferenceFailureFallsBack ==
    \A e \in Engines : "model" \in faulted[e] =>
        /\ Len(categories[e]) = Len(emails[e])
        /\ \A k \in DOMAIN categories[e] : categories[e][k] = "uncategorized"
        /\ pc[e] \notin {"tag", "mark"}
        /\ deleted_count[e] = 0
        /\ dstKey[e].loc # "archive"
        /\ faulted[e] = {"model"} =>
              /\ result[e].statusCode # 500
              /\ pc[e] = "done" =>
                    /\ result[e] = BatchResult(Len(emails[e]), 0, Len(emails[e]))
                    /\ Received(e) = acked[e]
                    /\ \A id \in Received(e) :
                          /\ \E k \in KeysOf("processed", id) : k.cat = "uncategorized"
                          /\ PendingKey(id) \notin DOMAIN store

\* inference failed on a batch of two e-mails and the cycle has ended
C11_Witness ==
    \E e \in Engines :
        /\ pc[e] = "done"
        /\ "model" \in faulted[e]
        /\ Cardinality(Received(e)) = 2
        /\ result[e].retained = 2

\* the calls whose exception reaches the except clause of lambda_handler
PropagatingCalls == {"download_file", "from_pretrained", "get_object", "delete_message"}

\* C12: no failure of a collaborator leaves lambda_handler as an exception:
\* a cycle that has ended has returned the empty result, a batch result with
\* its three counts, or one error result naming the failed call; a failure
\* of a call that is caught inside its function does not end the cycle.
C12_EveryCycleReturnsResult ==
    \A e \in Engines :
        /\ pc[e] = "done" =>
              \/ result[e] = EmptyResult
              \/ /\ result[e] = BatchResult(result[e].processed, result[e].deleted,
                                            result[e].retained)
                 /\ result[e].processed \in 1..NumItems
                 /\ result[e].deleted \in 0..NumItems
                 /\ result[e].retained \in 0..NumItems
              \/ \E call \in PropagatingCalls : \E text \in ErrorTexts(call) :
                     result[e] = ErrorResult(text)
        /\ pc[e] # "done" => result[e] = NoResult
        \* an error without a failure injected in this cycle comes from the
        \* debris of an earlier one: a pending object that is gone, or a
        \* MODEL_PATH with files missing
        /\ (pc[e] = "done" /\ faulted[e] = {} /\ result[e].statusCode = 500) =>
              result[e].error \in ErrorTexts("get_object") \cup ErrorTexts("from_pretrained")

\* the acknowledge of an e-mail failed and the cycle returned the error
C12_Witness ==
    \E e \in Engines :
        /\ pc[e] = "done"
        /\ "delete_message" \in faulted[e]
        /\ result[e].statusCode = 500
        /\ result[e].error \in ErrorTexts("delete_message")

\* the calls of the cycle that come after the loading loop
AfterLoadCalls == {"model", "copy_object", "put_object_tagging", "put_object",
                   "delete_object", "delete_message"}

\* the get_object of an e-mail of the batch of e has failed
LoadFailed(e) ==
    \/ "get_object" \in faulted[e]
    \/ pc[e] = "done" /\ Len(emails[e]) < Len(messages[e])

\* C13: when the load of one e-mail of the batch fails, the cycle ends with
\* the error result of that failure; no e-mail of the batch has been
\* classified, copied, tagged, recorded, deleted or acknowledged, and the
\* message of every e-mail of the batch is still in the queue.
C13_LoadFailureAbortsCycle ==
    \A e \in Engines : LoadFailed(e) =>
        /\ pc[e] = "done"
        /\ result[e].statusCode = 500
        /\ result[e].error \in ErrorTexts("get_object")
        /\ categories[e] = <<>>
        /\ calls[e] \cap AfterLoadCalls = {}
        /\ acked[e] = {}
        /\ deleted_count[e] = 0 /\ retained_count[e] = 0
        /\ Received(e) \subseteq queue

\* the first e-mail of a batch of two was loaded, the load of the second failed
C13_Witness ==
    \E e \in Engines :
        /\ pc[e] = "done"
        /\ "get_object" \in faulted[e]
        /\ Len(messages[e]) = 2
        /\ Len(emails[e]) = 1

\* the keys that hold the content of e-mail id
ContentKeys(id) ==
    {k \in DOMAIN store : k.id = id /\ k.loc \in {"pending", "processed", "archive"}}

\* C14: once the transition of an Item has completed (every store step of it
\* succeeded and the cycle acknowledged the Item), the content of the Item is
\* under exactly one key: it is not at two of the pending, processed and
\* archive locations at once.
C14_OneCanonicalKey ==
    \A e \in Engines : \A id \in acked[e] \ stepFailed[e] :
        Cardinality(ContentKeys(id)) = 1

\* container e is inside a cycle
Running(e) == pc[e] \notin {"idle", "done"}

\* e-mail id has an object that only a transition writes
Touched(id) ==
    KeysOf("archive", id) \cup KeysOf("processed", id) \cup KeysOf("deletions", id) # {}

\* e-mail id is in exactly one terminal state, written by one transition
OneTerminalState(id) ==
    \/ /\ Cardinality(KeysOf("archive", id)) = 1
       /\ Cardinality(KeysOf("deletions", id)) = 1
       /\ KeysOf("processed", id) = {}
    \/ /\ Cardinality(KeysOf("processed", id)) = 1
       /\ PendingKey(id) \notin DOMAIN store
       /\ KeysOf("archive", id) = {} /\ KeysOf("deletions", id) = {}

LoaderCalls == {"download_file", "from_pretrained"}

\* the positions of lambda_handler after load_model() has returned
PastLoadModel == {"receive", "load", "classify", "item", "tag", "mark", "unlink", "ack"}

\* C16: once load_model has set the model in a container, no later step of
\* that container, in that cycle or a later one, changes model, tokenizer or
\* MODEL_PATH or makes a download or from_pretrained call; and a cycle gets
\* past load_model, and so to the classification, only with tokenizer and
\* model set.
C16_ModelLoadedOnce ==
    [][\A e \in Engines :
         /\ model[e] # None =>
                /\ model'[e] = model[e]
                /\ tokenizer'[e] = tokenizer[e]
                /\ modelDir'[e] = modelDir[e]
                /\ (calls'[e] \ calls[e]) \cap LoaderCalls = {}
         /\ (pc'[e] \in PastLoadModel \/ "model" \in calls'[e]) =>
                (model'[e] # None /\ tokenizer'[e] # None)]_vars

\* a cycle of a container classified a batch without loading the model: the
\* model was loaded in an earlier cycle
C16_Witness ==
    \E e \in Engines :
        /\ model[e] # None
        /\ "model" \in calls[e]
        /\ calls[e] \cap LoaderCalls = {}

\* the cycle of e ended in load_model: a cycle gets past it only with the
\* model set
LoaderFailed(e) == pc[e] = "done" /\ model[e] = None

\* C17: a cycle in which loading the classifier failed returns an error that
\* no failure of another kind (loading an e-mail, acknowledging it) returns,
\* and it has made no receive call, no call on an e-mail object and no
\* acknowledge.
C17_LoaderFailureIsDistinct ==
    \A e \in Engines : LoaderFailed(e) =>
        /\ result[e].statusCode = 500
        /\ result[e].error \notin ErrorTexts("get_object") \cup ErrorTexts("delete_message")
        /\ calls[e] \subseteq LoaderCalls
        /\ messages[e] = <<>>
        /\ acked[e] = {}

\* the closed set of categories
ClosedCategorySet == {"spam", "promotional", "work", "personal", "low-priority",
                      "high-priority", "newsletter", "uncategorized"}

\* class indices inside and outside the domain of CATEGORY_MAP
AnyIndex == 0..8

\* C18: every category batch_classify_emails returns is one of the closed
\* set, whatever class index the model predicts for an e-mail of the batch,
\* an index outside 0..6 included, and whether or not inference fails; so the
\* categories of a cycle, and the category of every archive and processed
\* key, are of that set.
C18_CategoriesAreClosed ==
    /\ \A e \in Engines :
          /\ \A k \in DOMAIN categories[e] : categories[e][k] \in ClosedCategorySet
          /\ pc[e] = "classify" =>
                \A n \in DOMAIN emails[e], index \in AnyIndex, fails \in BOOLEAN :
                   LET p == [i \in Items |-> IF i = emails[e][n].messageId
                                              THEN index ELSE prediction[i]]
                       cs == batch_classify_emails(emails[e], p, fails)
                   IN \A k \in DOMAIN cs : cs[k] \in ClosedCategorySet
    /\ \A key \in DOMAIN store :
          key.loc \in {"archive", "processed"} => key.cat \in ClosedCategorySet

\* the model predicted an index CATEGORY_MAP does not know, inference did not
\* fail, and an e-mail of the batch was copied under processed/uncategorized
C18_Witness ==
    \E e \in Engines :
        /\ "model" \in calls[e]
        /\ "model" \notin faulted[e]
        /\ \E k \in DOMAIN emails[e] :
              prediction[emails[e][k].messageId] \notin DOMAIN CATEGORY_MAP
        /\ \E id \in acked[e] : \E key \in KeysOf("processed", id) :
              key.cat = "uncategorized"

\* C19: the content of every e-mail is in the bucket in every reachable
\* state: the pending original is never overwritten, it is gone only when a
\* processed copy with the same content exists (move_to_processed deletes it
\* after the copy succeeded, the archive path never deletes it), and so at
\* least one key holds the content whatever calls failed and however often
\* the e-mail was redelivered.
C19_ContentIsNeverLost ==
    /\ \A id \in Items :
          IF PendingKey(id) \in DOMAIN store
          THEN store[PendingKey(id)] = EmailBody(id)
          ELSE \E k \in DOMAIN store :
                  k.loc = "processed" /\ k.id = id /\ store[k] = EmailBody(id)
    /\ \A e \in Engines :
          pc[e] = "unlink" =>
             /\ dstKey[e] \in DOMAIN store
             /\ store[dstKey[e]] = EmailBody(CurEmail(e).messageId)

\* an e-mail was moved to processed/, its acknowledge failed, and its message
\* is in the queue again while the pending original is gone
C19_Witness ==
    \E id \in Visible :
        /\ PendingKey(id) \notin DOMAIN store
        /\ faults > 0

====
